---- MODULE Spec2Model ----
(***************************************************************************)
(* Pyslvs-UI, dimensional synthesis widget: the path trace of a stored     *)
(* result, DimensionalSynthesis.__get_path                                 *)
(* (src/core/synthesis/dimensional_synthesis/__init__.py, lines 530-600),  *)
(* the target path and result list handlers of the same widget, and the    *)
(* entity tables of src/core/widgets/tables.py.                            *)
(*                                                                         *)
(* Angles are multiples of 3 degrees, exact in Python floats, and are      *)
(* modelled as integers.  A coordinate is a pair <<x, y>> of integers:     *)
(* the x component names the joint (and slot or pin), the y component the  *)
(* configuration of the drivers the coordinate was solved for.  Indices    *)
(* are 0-based as in the source.                                           *)
(***************************************************************************)
EXTENDS Integers, Sequences, FiniteSets

VARIABLES
    mechanism_data,  \* self.mechanism_data: the stored results
    infeasible,      \* the solver's behaviour: driver/angle pairs with no solution
    pc,              \* position in __get_path: "idle", "for", "while"
    row,             \* argument of __get_path
    vpoints,         \* working copy of the joints (type, current position)
    path,            \* the Path being accumulated
    angles_params,   \* cumulative angle per driver
    di,              \* position of the `for interval in (3, -3)` loop, 1-based
    dp,              \* driver pointer
    angles,          \* current angle per driver
    calls,           \* history: one record per expr_solving call of this trace
    traced,          \* a previous invocation has returned
    returned,        \* the Path returned by the previous invocation
    target_points,   \* self.target_points: the item texts of the target list
    target_row,      \* self.target_points.currentRow()
    self_path,       \* self.path: target name -> list of points
    path_list,       \* self.path_list: the item texts of the point list
    path_row,        \* self.path_list.currentRow()
    result_list,     \* self.result_list: the items of the result list
    result_row,      \* self.result_list.currentRow()
    buttons_enabled, \* merge, delete, load settings, clipboard buttons
    no_save,         \* self.workbook_no_save() has been called
    link_table,      \* a LinkTableWidget: its rows
    expr_table,      \* an ExprTableWidget: its rows
    exprs,           \* its self.exprs
    point_table,     \* a PointTableWidget: its rows
    selected,        \* the selected rows of the point table
    current_cell,    \* the current cell's row of the point table
    op,              \* history: the handler that ran last
    warning          \* the title of the message box that handler showed or
                     \* the exception it raised, or ""

path_vars == <<target_points, target_row, self_path, path_list, path_row>>

result_vars == <<result_list, result_row, buttons_enabled, no_save>>

table_vars == <<link_table, expr_table, exprs, point_table, selected, current_cell>>

trace_vars == <<infeasible, pc, row, vpoints, path, angles_params,
                di, dp, angles, calls, traced, returned>>

widget_vars == <<path_vars, result_vars, table_vars, op, warning>>

vars == <<mechanism_data, trace_vars, widget_vars>>

----------------------------------------------------------------------------
(* Bounds of the model. *)

\* Largest number of 'PLAP' (driver) steps of a stored expression.
MaxDrivers == 2
\* Largest number of joints graph2vpoints yields.
MaxJoints == 2
\* Largest number of driver/angle pairs at which the solver has no solution.
MaxInfeasible == 2

\* Angles at which the modelled mechanisms may be infeasible: the first
\* step of a sweep, the middle of the turn and the first backward step.
InfeasibleAngles == {0, 180, 357}

----------------------------------------------------------------------------
(* Program constants. *)

\* `angles[dp] %= 360` and `angles_params[dp] > 360`.
Revolution == 360

\* nan = float('nan'): the component of the error sign.  Every component of
\* a solved or initial coordinate is >= 0.
nan == -1

NanPair == <<nan, nan>>

\* Only the +3 sweep (used to show that the -3 sweep is traced).
IntervalsForwardOnly == <<3>>

\* The -3 sweep first (used to show that the order of the sweeps matters).
IntervalsReversed == <<-3, 3>>

\* for interval in (3, -3)
Intervals == <<3, -3>>

Abs(x) == IF x < 0 THEN -x ELSE x

----------------------------------------------------------------------------
(* The stored result and what __get_path derives from it. *)

\* The function names of the steps of result['Expression'], as
\* str_before(expr, '[') yields them for every ';'-separated step.
ExpressionOf(n) == [k \in 1..(n + 1) |-> IF k <= n THEN "PLAP" ELSE "PLLP"]

\* The joint types of the vpoints graph2vpoints builds.
JointTypes == <<"R", "RP", "P">>

TypesOf(m) == [i \in 0..(m - 1) |-> JointTypes[(i % Len(JointTypes)) + 1]]

\* The position graph2vpoints gives joint i.
InitialPosition(i) == <<2 * i, 0>>

\* result['pos'] (and the 'P{n}' entries): the stored joint positions.
PositionsOf(m) == [i \in 0..(m - 1) |-> InitialPosition(i)]

\* result['Algorithm'] and result['interrupted'] of the results traced.
Results ==
    { [Algorithm |-> "DE", interrupted |-> "False",
       Expression |-> ExpressionOf(n), types |-> TypesOf(m), pos |-> PositionsOf(m)] :
        n \in 0..MaxDrivers, m \in 1..MaxJoints }

\* result = self.mechanism_data[row]
result == mechanism_data[row]

RECURSIVE CountPLAP(_)
\* sum(1 for e in exprs if e[0] == 'PLAP'), exprs being the parsed steps.
CountPLAP(es) ==
    IF es = <<>> THEN 0
    ELSE (IF Head(es) = "PLAP" THEN 1 ELSE 0) + CountPLAP(Tail(es))

DriverCount(res) == CountPLAP(res.Expression)

i_count == DriverCount(result)

JointCount(res) == Cardinality(DOMAIN res.types)

vpoint_count == JointCount(result)

Joints == 0..(vpoint_count - 1)

Drivers == 0..(i_count - 1)

\* pos[n] = result[f'P{n}'] (or result['pos'][n]);
\* vpoints = graph2vpoints(Graph(result['Graph']), pos, ...)
\* A P or RP joint holds a (slot, pin) pair, both at the stored position.
NewVPoints(res) ==
    [i \in DOMAIN res.types |->
        [type |-> res.types[i],
         c |-> IF res.types[i] \in {"P", "RP"} THEN <<res.pos[i], res.pos[i]>>
               ELSE res.pos[i]]]

\* path = [[] for _ in range(vpoint_count)]
NewPath(m) == [i \in 0..(m - 1) |-> <<>>]

\* The angle progress the previous trace left behind (were it an attribute).
KeptAngleProgress(n) ==
    IF DOMAIN angles_params = 0..(n - 1) THEN angles_params
    ELSE [d \in 0..(n - 1) |-> 0]

\* angles_params = [0.] * i_count
NewAngleProgress(n) == [d \in 0..(n - 1) |-> 0]

\* The angles of the previous sweep are kept.
KeptAngles(n) ==
    IF DOMAIN angles = 0..(n - 1) THEN angles ELSE [d \in 0..(n - 1) |-> 0]

\* angles = [0.] * i_count
NewAngles(n) == [d \in 0..(n - 1) |-> 0]

----------------------------------------------------------------------------
(* expr_solving: the external solver.  It reads the angles through sine    *)
(* and cosine, so that angles equal modulo 360 are one configuration.      *)

RECURSIVE Configuration(_, _)
\* The configuration of the first n drivers, as one number.
Configuration(a, n) ==
    IF n = 0 THEN 0
    ELSE (a[n - 1] % Revolution) + Revolution * Configuration(a, n - 1)

\* expr_solving raises ValueError at these angles.
SolveFails(a) ==
    \E d \in DOMAIN a : <<d, a[d] % Revolution>> \in infeasible

\* solved_result[i]: a coordinate, or (slot, pin) for a P or RP joint.
Slot(i, a) == <<2 * i, 1 + Configuration(a, Cardinality(DOMAIN a))>>

Pin(i, a) == <<2 * i + 1, 1 + Configuration(a, Cardinality(DOMAIN a))>>

IsSlider(t) == t \in {"P", "RP"}

SolvedResult(i, a) ==
    IF IsSlider(vpoints[i].type) THEN <<Slot(i, a), Pin(i, a)>> ELSE Slot(i, a)

----------------------------------------------------------------------------
(* The pieces of the sweep loop. *)

interval == Intervals[di]

\* The error sign reaches the first joint only.
AppendErrorFirstOnly(p) ==
    [i \in DOMAIN p |-> IF i = 0 THEN Append(p[i], NanPair) ELSE p[i]]

\* The previous coordinate is repeated instead of the error sign.
AppendErrorStale(p) ==
    [i \in DOMAIN p |->
        Append(p[i], IF p[i] = <<>> THEN NanPair ELSE p[i][Len(p[i])])]

\* for i in range(vpoint_count): path[i].append((nan, nan))
AppendError(p) == [i \in DOMAIN p |-> Append(p[i], NanPair)]

\* The slot coordinate of a P or RP joint is recorded instead of the pin.
AppendSlot(p, a) ==
    [i \in DOMAIN p |-> Append(p[i], Slot(i, a))]

\* path[i].append(solved_result[i][1]) for a P or RP joint,
\* path[i].append(solved_result[i]) for any other.
AppendResult(p, a) ==
    [i \in DOMAIN p |->
        Append(p[i], IF IsSlider(vpoints[i].type) THEN SolvedResult(i, a)[2]
                     ELSE SolvedResult(i, a))]

\* The P and RP joints are not moved.
MoveAllButSliders(a) ==
    [i \in DOMAIN vpoints |->
        IF IsSlider(vpoints[i].type) THEN vpoints[i]
        ELSE [vpoints[i] EXCEPT !.c = SolvedResult(i, a)]]

\* vpoints[i].move(slot, pin) or vpoints[i].move(solved_result[i])
MoveAll(a) == [i \in DOMAIN vpoints |-> [vpoints[i] EXCEPT !.c = SolvedResult(i, a)]]

\* move() reaches the stored positions (the vpoints alias the result).
MovedInPlace(res, a) ==
    [res EXCEPT !.pos = [i \in DOMAIN res.pos |->
                           IF IsSlider(res.types[i]) THEN Pin(i, a) ELSE Slot(i, a)]]

\* The stored result after vpoints[i].move(...): pos is a local dict of
\* tuples and the vpoints are objects graph2vpoints builds, so nothing of
\* result is written.
StoredAfterMove(res, a) == res

\* Every driver is backed off, not only the active one.
BackOffAll(a, d, step) == [k \in DOMAIN a |-> a[k] - step]

\* The active driver is pushed on instead of backed off.
BackOffForward(a, d, step) == [a EXCEPT ![d] = @ + step]

\* except branch: angles[dp] -= interval
BackOff(a, d, step) == [a EXCEPT ![d] = @ - step]

\* The failing angle is tried again.
RetryDriver(d) == d

\* except branch: dp += 1
AfterError(d) == d + 1

\* angles[dp] += interval; angles[dp] %= 360
Advance(a, d, step) == [a EXCEPT ![d] = (@ + step) % Revolution]

\* The progress is accumulated with the sign of the interval (abs missing).
ProgressSigned(ap, d, step) == [ap EXCEPT ![d] = @ + step]

\* The progress is not accumulated.
ProgressForgotten(ap, d, step) == ap

\* angles_params[dp] += abs(interval)
Progress(ap, d, step) == [ap EXCEPT ![d] = @ + Abs(step)]

\* The test sees the progress before the step just made.
OvershootOneLate(p) == p - 3 > Revolution

\* The turn ends as soon as the progress reaches 360.
OvershootAtFullTurn(p) == p >= Revolution

\* if angles_params[dp] > 360
Overshoot(p) == p > Revolution

\* The overshooting step is not undone.
NoRollBack(a, d, step) == a

\* else branch, after the overshoot: angles[dp] -= interval
RollBack(a, d, step) == [a EXCEPT ![d] = @ - step]

\* The next driver is skipped after a full turn.
SkipDriver(d) == d + 2

\* else branch, after the overshoot: dp += 1
AfterRevolution(d) == d + 1

\* The record of one expr_solving call.
Call(ok) == [interval |-> interval, di |-> di, dp |-> dp, ok |-> ok, angles |-> angles]

----------------------------------------------------------------------------
(* Python lists and the items of Qt list widgets: functions on 0..n-1.     *)

Size(l) == Cardinality(DOMAIN l)

\* l.append(x), QListWidget.addItem
Added(l, x) == [i \in 0..Size(l) |-> IF i < Size(l) THEN l[i] ELSE x]

\* The position a Python index names: a negative one counts from the end.
Index(l, k) == IF k < 0 THEN k + Size(l) ELSE k

\* l[k] raises IndexError unless this holds.
InRange(l, k) == Index(l, k) \in DOMAIN l

\* l[k]
At(l, k) == l[Index(l, k)]

\* The place l.insert(k, x) and QListWidget.insertItem(k, x) put x at.
InsertAt(l, k) ==
    IF k < 0 THEN (IF Size(l) + k < 0 THEN 0 ELSE Size(l) + k)
    ELSE (IF k > Size(l) THEN Size(l) ELSE k)

\* l.insert(k, x), QListWidget.insertItem(k, x)
Inserted(l, k, x) ==
    [i \in 0..Size(l) |->
        IF i < InsertAt(l, k) THEN l[i]
        ELSE IF i = InsertAt(l, k) THEN x ELSE l[i - 1]]

\* del l[k], l.pop(k)
Deleted(l, k) ==
    [i \in 0..(Size(l) - 2) |-> IF i < Index(l, k) THEN l[i] ELSE l[i + 1]]

\* QListWidget.takeItem(k): nothing is taken at a row that does not exist.
Taken(l, k) == IF k \in DOMAIN l THEN Deleted(l, k) ELSE l

\* currentRow() after insertItem(k, x): the current item keeps its identity.
RowAfterInsert(l, c, k) == IF c > -1 /\ InsertAt(l, k) <= c THEN c + 1 ELSE c

\* currentRow() after takeItem(k): when the current item is taken, the item
\* after it becomes current, or the one before it when it was the last.
RowAfterTake(l, c, k) ==
    IF k \notin DOMAIN l THEN c
    ELSE IF k < c THEN c - 1
    ELSE IF k = c THEN (IF c < Size(l) - 1 THEN c ELSE c - 1)
    ELSE c

----------------------------------------------------------------------------
(* Target points.  A coordinate is an integer number of 1/100000: one      *)
(* decimal more than round(x, 4) and '.04f' keep.                          *)

\* Units per 1.0.
Scale == 100000

\* round(x, 4): to the nearest multiple of 10 units, ties to even.
Round4(v) ==
    LET q == v \div 10
        r == v % 10
    IN  IF r < 5 THEN 10 * q
        ELSE IF r > 5 THEN 10 * (q + 1)
        ELSE IF q % 2 = 0 THEN 10 * q ELSE 10 * (q + 1)

\* f"{x:.04f}": the decimal text with four places, named by its number of
\* 1/10000.
Format4(v) == Round4(v) \div 10

\* f"({x:.04f}, {y:.04f})"
ItemText(x, y) == <<Format4(x), Format4(y)>>

\* hypot(x - cx, y - cy) < 3
Near(x, y, c) ==
    LET dx == Abs(x - c[1])
        dy == Abs(y - c[2])
    IN  IF dx >= 3 * Scale \/ dy >= 3 * Scale THEN FALSE
        ELSE IF dx + dy < 3 * Scale THEN TRUE
        ELSE \* in units of 1/10000, which keeps the squares in range
             (dx \div 10) * (dx \div 10) + (dy \div 10) * (dy \div 10)
                 < ((3 * Scale) \div 10) * ((3 * Scale) \div 10)

\* f"P{name}" and int(item.text().replace('P', ''))
TargetText(name) == <<"P", name>>

NameOf(text) == text[2]

----------------------------------------------------------------------------
(* The target path handlers of the widget, as functions of the state they  *)
(* read and write: st.self_path, st.path_list, st.path_row.                *)

PathState == [self_path |-> self_path, path_list |-> path_list, path_row |-> path_row]

\* item = self.target_points.currentItem(); item is None
NoTarget == target_row = -1

\* current_path(): a new empty list when no target is current, else the
\* list stored in self.path.
CurrentPath(st) ==
    IF NoTarget THEN <<>> ELSE st.self_path[NameOf(target_points[target_row])]

\* A list current_path() returned is changed in place to l: the change
\* reaches self.path only when the list is the stored one.
CurrentPathSet(st, l) ==
    IF NoTarget THEN st.self_path
    ELSE [st.self_path EXCEPT ![NameOf(target_points[target_row])] = l]

\* add_point(x, y)
add_point(st, x, y) ==
    [self_path |-> CurrentPathSet(st, Added(CurrentPath(st), <<Round4(x), Round4(y)>>)),
     path_list |-> Added(st.path_list, ItemText(Round4(x), Round4(y))),
     path_row |-> Size(st.path_list)]

RECURSIVE add_points(_, _)
\* for x, y in data: self.add_point(x, y)       (data: a sequence of pairs)
add_points(st, data) ==
    IF data = <<>> THEN st
    ELSE add_points(add_point(st, Head(data)[1], Head(data)[2]), Tail(data))

\* The texts of the list widget for a path: __set_target's loop.
ItemsOf(l) == [i \in DOMAIN l |-> ItemText(l[i][1], l[i][2])]

\* raw_data: a sequence of tokens, <<"num", v>> a text float() reads as v,
\* <<"str", 0>> a text float() raises ValueError on.  raw_data[i] of the
\* source is raw_data[i + 1] here.
IsNumber(t) == t[1] = "num"

\* range(0, len(raw_data), 2), shifted by one
PairStarts(raw) == { i \in 1..Len(raw) : i % 2 = 1 }

\* A lenient parse: a trailing odd token is dropped.
ParseRaisesOnTextOnly(raw) == \E i \in 1..Len(raw) : ~IsNumber(raw[i])

\* The list comprehension raises: float(raw_data[i]) ValueError,
\* raw_data[i + 1] IndexError, or float(raw_data[i + 1]) ValueError.
ParseRaises(raw) ==
    \E i \in PairStarts(raw) :
        IF ~IsNumber(raw[i]) THEN TRUE
        ELSE IF i + 1 > Len(raw) THEN TRUE
        ELSE ~IsNumber(raw[i + 1])

\* data = [(round(float(raw_data[i]), 4), round(float(raw_data[i + 1]), 4)) ...]
ParsedData(raw) ==
    [k \in 1..(Len(raw) \div 2) |->
        <<Round4(raw[2 * k - 1][2]), Round4(raw[2 * k][2])>>]

\* self.path_list.setCurrentRow(row - 1) of __move_up_point
RowAfterMoveUp(r) == r - 1

\* self.path_list.setCurrentRow(row + 1) of __move_down_point
RowAfterMoveDown(r) == r + 1

----------------------------------------------------------------------------
(* The result list. *)

\* The icon __add_result picks.
IconOf(interrupt) ==
    IF interrupt = "False" THEN "task_completed.png"
    ELSE IF interrupt = "N/A" THEN "question.png"
    ELSE "interrupted.png"

\* The QListWidgetItem __add_result makes of a result: its text, icon and
\* tool tip (named by the two fields the tool tip is formatted from).
ItemOf(res) ==
    [text |-> res.Algorithm,
     icon |-> IconOf(res.interrupted),
     tip |-> <<res.Algorithm, res.interrupted>>]

\* self.edit_link(0, 'ground', 'White', ''): the row of the frame link.
GroundRow == [name |-> "ground", color |-> "White", points |-> ""]

----------------------------------------------------------------------------
(* The state machine. *)

Init ==
    /\ \E res \in Results :
         /\ mechanism_data = [r \in {0} |-> res]
         /\ infeasible \in
              { s \in SUBSET ((0..(DriverCount(res) - 1)) \X InfeasibleAngles) :
                  Cardinality(s) <= MaxInfeasible }
    /\ pc = "idle"
    /\ row = 0
    /\ vpoints = <<>>
    /\ path = <<>>
    /\ angles_params = <<>>
    /\ di = 1
    /\ dp = 0
    /\ angles = <<>>
    /\ calls = <<>>
    /\ traced = FALSE
    /\ returned = <<>>
    /\ target_points = <<>> /\ target_row = -1 /\ self_path = <<>>
    /\ path_list = <<>> /\ path_row = -1
    /\ result_list = [r \in {0} |-> ItemOf(mechanism_data[r])]
    /\ result_row = 0
    /\ buttons_enabled = TRUE
    /\ no_save = FALSE
    /\ link_table = [r \in {0} |-> GroundRow]
    /\ expr_table = <<>> /\ exprs = <<>> /\ point_table = <<>>
    /\ selected = {} /\ current_cell = -1
    /\ op = "load_results"
    /\ warning = ""

\* __show_result / __merge_result call __get_path(row) for the current row,
\* row = self.result_list.currentRow(), if row > -1; lines 530-568 of
\* __get_path.
GetPathBegin ==
    /\ pc = "idle"
    /\ result_row > -1
    /\ LET r == result_row IN
         /\ row' = r
         /\ vpoints' = NewVPoints(mechanism_data[r])
         /\ path' = NewPath(JointCount(mechanism_data[r]))
         /\ angles_params' = NewAngleProgress(DriverCount(mechanism_data[r]))
    /\ di' = 1
    /\ calls' = <<>>
    /\ pc' = "for"
    /\ UNCHANGED <<mechanism_data, infeasible, dp, angles, traced, returned, widget_vars>>

\* for interval in (3, -3): dp = 0; angles = [0.] * i_count
ForInterval ==
    /\ pc = "for"
    /\ di <= Len(Intervals)
    /\ dp' = 0
    /\ angles' = NewAngles(i_count)
    /\ pc' = "while"
    /\ UNCHANGED <<mechanism_data, infeasible, row, vpoints, path, angles_params,
                   di, calls, traced, returned, widget_vars>>

\* One iteration of the while loop in which expr_solving raises ValueError.
SolveError ==
    /\ pc = "while"
    /\ dp < i_count
    /\ SolveFails(angles)
    /\ path' = AppendError(path)
    /\ angles' = BackOff(angles, dp, interval)
    /\ dp' = AfterError(dp)
    /\ calls' = Append(calls, Call(FALSE))
    /\ UNCHANGED <<mechanism_data, infeasible, pc, row, vpoints, angles_params,
                   di, traced, returned, widget_vars>>

\* One iteration of the while loop in which expr_solving returns.
SolveOk ==
    /\ pc = "while"
    /\ dp < i_count
    /\ ~SolveFails(angles)
    /\ path' = AppendResult(path, angles)
    /\ vpoints' = MoveAll(angles)
    /\ angles_params' = Progress(angles_params, dp, interval)
    /\ IF Overshoot(angles_params'[dp])
         THEN /\ angles' = RollBack(Advance(angles, dp, interval), dp, interval)
              /\ dp' = AfterRevolution(dp)
         ELSE /\ angles' = Advance(angles, dp, interval)
              /\ dp' = dp
    /\ mechanism_data' = [mechanism_data EXCEPT ![row] = StoredAfterMove(@, angles)]
    /\ calls' = Append(calls, Call(TRUE))
    /\ UNCHANGED <<infeasible, pc, row, di, traced, returned, widget_vars>>

\* while dp < i_count is false: the next interval.
WhileExit ==
    /\ pc = "while"
    /\ dp >= i_count
    /\ di' = di + 1
    /\ pc' = "for"
    /\ UNCHANGED <<mechanism_data, infeasible, row, vpoints, path, angles_params,
                   dp, angles, calls, traced, returned, widget_vars>>

\* return path
Return ==
    /\ pc = "for"
    /\ di > Len(Intervals)
    /\ returned' = path
    /\ traced' = TRUE
    /\ pc' = "idle"
    /\ UNCHANGED <<mechanism_data, infeasible, row, vpoints, path, angles_params,
                   di, dp, angles, calls, widget_vars>>

Next ==
    \/ GetPathBegin
    \/ ForInterval
    \/ SolveError
    \/ SolveOk
    \/ WhileExit
    \/ Return

Spec == Init /\ [][Next]_vars

\* The steps of a running __get_path: synchronous code, which runs on until
\* it returns.
TraceStep == ForInterval \/ SolveError \/ SolveOk \/ WhileExit \/ Return

FairSpec == Spec /\ WF_vars(TraceStep)

----------------------------------------------------------------------------
(* The target path handlers: lines 172-368 and 646-662.  A handler that    *)
(* returns early is a step that changes nothing but `op`; a handler that   *)
(* raises keeps what it had written before and leaves the name of the      *)
(* exception in `warning`.                                                 *)

\* Largest number of target points in the widget, over all targets.
MaxPoints == 3
\* Largest number of tokens of a pasted or imported text.
MaxTokens == 4

\* The coordinates add_point is called with.
PointInputs == {<<4, 0>>, <<10 * Scale + 6, 0>>}

\* The coordinates set_point is called with.
MovedPoints == {<<14, 6>>}

\* The target joints of the profiles.
TargetNames == {2, 4}

\* The paths stored with a profile: none, or two points.
StoredPaths == {<<>>, [i \in 0..1 |-> <<i * (10 * Scale + 10), 0>>]}

\* The texts of a pasted text: the x coordinate of the pair starting at
\* token i, and the y coordinates, one of which is not a number.
XTokens(i) == {<<"num", IF i % 4 = 1 THEN 4 ELSE 10 * Scale + 6>>}

YTokens == {<<"num", 0>>, <<"str", 0>>}

RawInputs ==
    UNION { { raw \in [1..n -> UNION {XTokens(i) : i \in 1..n} \cup YTokens] :
                \A i \in 1..n : raw[i] \in (IF i % 2 = 1 THEN XTokens(i) ELSE YTokens) } :
            n \in 0..MaxTokens }

RECURSIVE SumSizes(_, _)
SumSizes(paths, names) ==
    IF names = {} THEN 0
    ELSE LET n == CHOOSE n \in names : TRUE
         IN  Size(paths[n]) + SumSizes(paths, names \ {n})

\* The number of points of all target paths.
TotalPoints(paths) == SumSizes(paths, DOMAIN paths)

\* k more points stay within the bound of the model.
Room(k) ==
    /\ Size(path_list) + k <= MaxPoints
    /\ TotalPoints(self_path) + k <= MaxPoints

\* The state __init__ leaves: it ends with self.clear().
Constructed ==
    /\ mechanism_data = <<>>
    /\ target_points = <<>> /\ target_row = -1 /\ self_path = <<>>
    /\ path_list = <<>> /\ path_row = -1
    /\ result_list = <<>> /\ result_row = -1
    /\ buttons_enabled = FALSE
    /\ no_save = FALSE
    /\ op = "__init__"
    /\ warning = ""

\* No trace is running.
TraceIdle ==
    /\ infeasible = {}
    /\ pc = "idle"
    /\ row = 0
    /\ vpoints = <<>> /\ path = <<>> /\ angles_params = <<>>
    /\ di = 1 /\ dp = 0
    /\ angles = <<>> /\ calls = <<>>
    /\ traced = FALSE /\ returned = <<>>

\* The tables as their constructors leave them.
TablesBuilt ==
    /\ link_table = [r \in {0} |-> GroundRow]
    /\ expr_table = <<>> /\ exprs = <<>> /\ point_table = <<>>
    /\ selected = {} /\ current_cell = -1

PathInit == Constructed /\ TraceIdle /\ TablesBuilt

SetPathState(st) ==
    /\ self_path' = st.self_path
    /\ path_list' = st.path_list
    /\ path_row' = st.path_row

Done(name, title) == op' = name /\ warning' = title

PathFrame ==
    UNCHANGED <<mechanism_data, trace_vars, result_vars, table_vars,
                target_points, target_row>>

\* add_point(x, y), as the canvas calls it
AddPoint ==
    /\ Room(1)
    /\ \E p \in PointInputs : SetPathState(add_point(PathState, p[1], p[2]))
    /\ Done("add_point", "")
    /\ PathFrame

\* set_point(x, y)
SetPoint ==
    /\ \E p \in MovedPoints, checked \in BOOLEAN :
         LET cur == CurrentPath(PathState)
             hits == { i \in DOMAIN cur : Near(p[1], p[2], cur[i]) }
             index == CHOOSE i \in hits : \A h \in hits : i <= h
         IN  IF ~checked \/ hits = {}
             THEN Done("set_point", "") /\ UNCHANGED <<self_path, path_list, path_row>>
             ELSE /\ self_path' = CurrentPathSet(PathState, [cur EXCEPT ![index] = p])
                  /\ path_row' = IF index \in DOMAIN path_list THEN index ELSE -1
                  /\ IF index \in DOMAIN path_list
                       THEN /\ path_list' = [path_list EXCEPT ![index] = ItemText(p[1], p[2])]
                            /\ Done("set_point", "")
                       ELSE /\ path_list' = path_list
                            /\ Done("set_point", "AttributeError")
    /\ PathFrame

\* __clear_path(), the question answered Yes or No
ClearPath ==
    /\ \E yes \in BOOLEAN :
         IF yes
         THEN /\ self_path' = CurrentPathSet(PathState, <<>>)
              /\ path_list' = <<>>
              /\ path_row' = -1
         ELSE UNCHANGED <<self_path, path_list, path_row>>
    /\ Done("__clear_path", "")
    /\ PathFrame

\* __close_path()
ClosePath ==
    /\ Room(1)
    /\ LET cur == CurrentPath(PathState)
       IN  IF ~(Size(path_list) > 1)
           THEN Done("__close_path", "") /\ UNCHANGED <<self_path, path_list, path_row>>
           ELSE IF ~InRange(cur, 0)
           THEN Done("__close_path", "IndexError")
                /\ UNCHANGED <<self_path, path_list, path_row>>
           ELSE /\ Done("__close_path", "")
                /\ IF At(cur, 0) # At(cur, -1)
                     THEN SetPathState(add_point(PathState, At(cur, 0)[1], At(cur, 0)[2]))
                     ELSE UNCHANGED <<self_path, path_list, path_row>>
    /\ PathFrame

\* What a handler leaves: the state, and the exception it raised or "".
Left(paths, list, r, exc) ==
    [self_path |-> paths, path_list |-> list, path_row |-> r, raised |-> exc]

Returned(st) == Left(st.self_path, st.path_list, st.path_row, "")

Raised(st, exc) == Left(st.self_path, st.path_list, st.path_row, exc)

\* __move_up_point(), on the state st
move_up_point(st) ==
    LET cur == CurrentPath(st)
        r == st.path_row
    IN  IF ~(r > 0 /\ Size(st.path_list) > 1) THEN Returned(st)
        ELSE IF ~InRange(cur, r) THEN Raised(st, "IndexError")
        ELSE Left(CurrentPathSet(st, Deleted(Inserted(cur, r - 1, At(cur, r)), r + 1)),
                  Taken(Inserted(st.path_list, r - 1, st.path_list[r]), r + 1),
                  RowAfterMoveUp(r),
                  "")

\* __move_down_point(), on the state st.  With no current row (r = -1)
\* path[row] is the last point, and self.path_list.currentItem() is None:
\* the path has been changed when .text() raises.
move_down_point(st) ==
    LET cur == CurrentPath(st)
        r == st.path_row
    IN  IF ~(r < Size(st.path_list) - 1 /\ Size(st.path_list) > 1) THEN Returned(st)
        ELSE IF ~InRange(cur, r) THEN Raised(st, "IndexError")
        ELSE IF r = -1
        THEN Left(CurrentPathSet(st, Deleted(Inserted(cur, r + 2, At(cur, r)), r)),
                  st.path_list, st.path_row, "AttributeError")
        ELSE Left(CurrentPathSet(st, Deleted(Inserted(cur, r + 2, At(cur, r)), r)),
                  Taken(Inserted(st.path_list, r + 2, st.path_list[r]), r),
                  RowAfterMoveDown(r),
                  "")

MoveUpPoint ==
    /\ SetPathState(move_up_point(PathState))
    /\ Done("__move_up_point", move_up_point(PathState).raised)
    /\ PathFrame

MoveDownPoint ==
    /\ SetPathState(move_down_point(PathState))
    /\ Done("__move_down_point", move_down_point(PathState).raised)
    /\ PathFrame

\* __delete_point()
DeletePoint ==
    /\ LET cur == CurrentPath(PathState)
           r == path_row
       IN  IF ~(r > -1)
           THEN Done("__delete_point", "")
                /\ UNCHANGED <<self_path, path_list, path_row>>
           ELSE IF ~InRange(cur, r)
           THEN Done("__delete_point", "IndexError")
                /\ UNCHANGED <<self_path, path_list, path_row>>
           ELSE /\ self_path' = CurrentPathSet(PathState, Deleted(cur, r))
                /\ path_list' = Taken(path_list, r)
                /\ path_row' = RowAfterTake(path_list, r, r)
                /\ Done("__delete_point", "")
    /\ PathFrame

\* The user makes another target current: __set_target()
SetTarget ==
    /\ \E r \in DOMAIN target_points :
         /\ r # target_row
         /\ target_row' = r
         /\ path_list' = ItemsOf(self_path[NameOf(target_points[r])])
    /\ path_row' = -1
    /\ Done("__set_target", "")
    /\ UNCHANGED <<mechanism_data, trace_vars, result_vars, table_vars,
                   target_points, self_path>>

\* sorted(target), as a list
Sorted(names) ==
    [i \in 0..(Cardinality(names) - 1) |->
        CHOOSE n \in names : Cardinality({ m \in names : m < n }) = i]

\* __set_profile(profile_name, params), params['Target'] being `target`
SetProfile ==
    /\ \E names \in SUBSET TargetNames : \E target \in [names -> StoredPaths] :
         /\ TotalPoints(target) <= MaxPoints
         /\ target_points' = [i \in DOMAIN Sorted(names) |-> TargetText(Sorted(names)[i])]
         /\ self_path' = target
         /\ IF names # {}
              THEN /\ target_row' = 0
                   /\ path_list' = ItemsOf(target[Sorted(names)[0]])
              ELSE /\ target_row' = -1
                   /\ path_list' = <<>>
    /\ path_row' = -1
    /\ Done("__set_profile", "")
    /\ UNCHANGED <<mechanism_data, trace_vars, result_vars, table_vars>>

\* __read_path_from_csv(raw_data), on the state st: what it leaves, the
\* title of the warning in place of an exception.
read_path_from_csv(st, raw) ==
    IF ParseRaises(raw) THEN Raised(st, "File error")
    ELSE Returned(add_points(st, ParsedData(raw)))

\* __read_path_from_csv(raw_data), from __paste_path or __import_csv
ReadPathFromCsv ==
    /\ \E raw \in RawInputs :
         /\ IF ParseRaises(raw) THEN TRUE ELSE Room(Len(raw) \div 2)
         /\ SetPathState(read_path_from_csv(PathState, raw))
         /\ Done("__read_path_from_csv", read_path_from_csv(PathState, raw).raised)
    /\ PathFrame

\* clear()
Clear ==
    /\ mechanism_data' = <<>>
    /\ result_list' = <<>>
    /\ result_row' = -1
    /\ buttons_enabled' = FALSE
    /\ target_points' = <<>> /\ target_row' = -1 /\ self_path' = <<>>
    /\ path_list' = <<>> /\ path_row' = -1
    /\ Done("clear", "")
    /\ UNCHANGED <<trace_vars, table_vars, no_save>>

PathNext ==
    \/ AddPoint
    \/ SetPoint
    \/ ClearPath
    \/ ClosePath
    \/ MoveUpPoint
    \/ MoveDownPoint
    \/ DeletePoint
    \/ SetTarget
    \/ SetProfile
    \/ ReadPathFromCsv
    \/ Clear

PathSpec == PathInit /\ [][PathNext]_vars

----------------------------------------------------------------------------
(* The results: clear (lines 123-128), load_results (159-163), __synthesis *)
(* (380-443), __delete_result (474-491) and __has_result (493-503).        *)

\* Largest number of results in memory.
MaxResults == 3
\* Largest number of results one dialog or one workbook hands over.
MaxBatch == 2

\* The results a synthesis or a workbook hands over: one for each icon.
Mechanisms ==
    LET res == CHOOSE r \in Results : DriverCount(r) = 1 /\ JointCount(r) = 1
    IN  { [res EXCEPT !.Algorithm = m[1], !.interrupted = m[2]] :
            m \in {<<"DE", "False">>, <<"RGA", "N/A">>, <<"Firefly", "37">>} }

\* dlg.mechanisms, and the argument of load_results
Batches == UNION { [0..(n - 1) -> Mechanisms] : n \in 0..MaxBatch }

\* One append (or addItem) for each entry of `more`, in order.
AddedAll(l, more) ==
    [i \in 0..(Size(l) + Size(more) - 1) |->
        IF i < Size(l) THEN l[i] ELSE more[i - Size(l)]]

\* The items __add_result makes of the results.
ResultItems(mechanisms) == [i \in DOMAIN mechanisms |-> ItemOf(mechanisms[i])]

\* The lengths are not compared.
LengthsNotChecked(paths) == FALSE

\* The loop of __synthesis over self.path.values(): `length` is the length
\* of the first path, in the order __set_profile has inserted the names,
\* and a path of another length ends the handler.
LengthsDiffer(paths) ==
    /\ DOMAIN paths # {}
    /\ LET length == Size(paths[Sorted(DOMAIN paths)[0]])
       IN  \E name \in DOMAIN paths : Size(paths[name]) # length

\* __able_to_generate has enabled the synthesis button: a profile with
\* targets is set and the path list shows more than one point.
AbleToGenerate == target_points # <<>> /\ Size(path_list) > 1

\* The wrong entry is removed.
PoppedFirst(l, r) == Deleted(l, 0)

\* self.mechanism_data.pop(row)
Popped(l, r) == Deleted(l, r)

ResultFrame == UNCHANGED <<trace_vars, table_vars, path_vars>>

\* load_results(mechanism_data)
LoadResults ==
    /\ \E batch \in Batches :
         /\ Size(mechanism_data) + Size(batch) <= MaxResults
         /\ mechanism_data' = AddedAll(mechanism_data, batch)
         /\ result_list' = AddedAll(result_list, ResultItems(batch))
    /\ Done("load_results", "")
    /\ UNCHANGED <<result_row, buttons_enabled, no_save>>
    /\ ResultFrame

\* on_synthesis_button_clicked: __synthesis()
Synthesis ==
    /\ AbleToGenerate
    /\ IF LengthsDiffer(self_path)
       THEN /\ Done("__synthesis", "Target Error")
            /\ UNCHANGED <<mechanism_data, result_vars>>
       ELSE \E accepted \in BOOLEAN, mechanisms \in Batches :
              IF ~accepted
              THEN /\ Done("__synthesis", "")
                   /\ UNCHANGED <<mechanism_data, result_vars>>
              ELSE /\ Size(mechanism_data) + Size(mechanisms) <= MaxResults
                   /\ mechanism_data' = AddedAll(mechanism_data, mechanisms)
                   /\ result_list' = AddedAll(result_list, ResultItems(mechanisms))
                   /\ no_save' = TRUE
                   /\ Done("__synthesis", "")
                   /\ UNCHANGED <<result_row, buttons_enabled>>
    /\ ResultFrame

\* on_delete_button_clicked: __delete_result()
DeleteResult ==
    /\ \E yes \in BOOLEAN :
         IF ~(result_row > -1) \/ ~yes
         THEN /\ Done("__delete_result", "")
              /\ UNCHANGED <<mechanism_data, result_vars>>
         ELSE IF ~InRange(mechanism_data, result_row)
         THEN /\ Done("__delete_result", "IndexError")
              /\ UNCHANGED <<mechanism_data, result_vars>>
         ELSE /\ mechanism_data' = Popped(mechanism_data, result_row)
              /\ result_list' = Taken(result_list, result_row)
              /\ result_row' = RowAfterTake(result_list, result_row, result_row)
              /\ no_save' = TRUE
              /\ buttons_enabled' = (result_row' > -1)
              /\ Done("__delete_result", "")
    /\ ResultFrame

\* on_result_list_clicked, the user having clicked an item: __has_result()
ResultClicked ==
    /\ \E r \in DOMAIN result_list : result_row' = r
    /\ buttons_enabled' = (result_row' > -1)
    /\ Done("__has_result", "")
    /\ UNCHANGED <<mechanism_data, result_list, no_save>>
    /\ ResultFrame

ResultNext ==
    \/ LoadResults
    \/ Synthesis
    \/ DeleteResult
    \/ ResultClicked
    \/ SetProfile
    \/ SetTarget
    \/ Clear

ResultSpec == PathInit /\ [][ResultNext]_vars

----------------------------------------------------------------------------
(* The tables of src/core/widgets/tables.py.  The rows of a table are a    *)
(* list; `selected` and `current_cell` are the selection of the point      *)
(* table.  The owner of the tables adds a row before it calls edit_point   *)
(* or edit_link on it.                                                     *)

\* Largest number of rows of the tables together, the row of the frame
\* link apart.
MaxRows == 3
\* Largest number of rows one set_selections call names.
MaxSelections == 2

\* QApplication.keyboardModifiers()
Modifiers == {"NoModifier", "ShiftModifier", "ControlModifier", "Shift+Control"}

\* What QTableWidget.setCurrentCell does to the selection of the row of the
\* cell, which depends on the selection mode and the keys held.
CellEffects == {"keep", "select", "toggle"}

\* selections, as the canvas sends them: rows of the table
SelectionInputs ==
    UNION { [1..n -> DOMAIN point_table] : n \in 0..MaxSelections }

\* The links edit_link writes.
LinkInputs ==
    {GroundRow, [name |-> "link_1", color |-> "Blue", points |-> "Point0,Point1"]}

\* The expression stacks and the unsolved points set_expr is called with.
ExprInputs == {<<>>, <<"PLAP">>}
UnsolvedInputs == {<<>>, <<3>>}

\* A row without items, as setRowCount and insertRow add it.
NoItems == [name |-> "", color |-> "", points |-> ""]

\* removeRow(0), n times
RECURSIVE RemovedRows(_, _)
RemovedRows(l, n) == IF n = 0 THEN l ELSE RemovedRows(Taken(l, 0), n - 1)

\* BaseTableWidget.clear()
BaseCleared(l) == RemovedRows(l, Size(l))

\* setRowCount(n)
RowCountSet(l, n, empty) ==
    [i \in 0..(n - 1) |-> IF i \in DOMAIN l THEN l[i] ELSE empty]

\* setItem on every column of a row: nothing is set at a row that does not
\* exist.
RowSet(l, r, items) == IF r \in DOMAIN l THEN [l EXCEPT ![r] = items] ELSE l

\* edit_link(row, name, color, points)
edit_link(l, r, name, color, points) ==
    RowSet(l, r, [name |-> name, color |-> color, points |-> points])

\* The row of the frame link is not put back.
GroundDropped(l) == BaseCleared(l)

\* LinkTableWidget.clear()
LinkCleared(l) ==
    edit_link(RowCountSet(BaseCleared(l), 1, NoItems), 0, "ground", "White", "")

\* edit_point(row, links, ...): the items of the row
PointRow(r, links) == [number |-> <<"Point", r>>, links |-> links]

\* The rows set_expr fills: one for each expression, then one for each
\* unsolved point.
ExprRows(l, es, unsolved) ==
    [i \in DOMAIN l |->
        IF i < Len(es) THEN [function |-> es[i + 1], target |-> <<"P", i>>]
        ELSE IF i < Len(es) + Len(unsolved)
        THEN [function |-> "Unsolved", target |-> <<"P", unsolved[i - Len(es) + 1]>>]
        ELSE l[i]]

\* set_selections ignores key_detect.
ModeWithoutKeys(modifiers, key_detect) == <<modifiers = "ShiftModifier", FALSE>>

\* (is_continue, un_select), as set_selections passes them on.
Mode(modifiers, key_detect) ==
    IF key_detect
    THEN IF modifiers = "ShiftModifier" THEN <<TRUE, FALSE>>
         ELSE IF modifiers = "ControlModifier" THEN <<TRUE, TRUE>>
         ELSE <<FALSE, FALSE>>
    ELSE <<modifiers = "ShiftModifier", FALSE>>

TableState == [selected |-> selected, current_cell |-> current_cell]

\* The loop of __set_selected_ranges from the k-th row of selections on.
RECURSIVE RangesSelected(_, _, _, _, _)
RangesSelected(sel, selections, k, selected_rows, un_select) ==
    IF k > Len(selections) THEN sel
    ELSE LET r == selections[k]
             is_selected == IF un_select THEN r \notin selected_rows ELSE TRUE
         IN  RangesSelected(IF is_selected THEN sel \cup {r} ELSE sel \ {r},
                            selections, k + 1, selected_rows, un_select)

\* setCurrentCell(r, 0), as far as the selection goes
CellSelected(sel, r, effect) ==
    IF effect = "select" \/ (effect = "toggle" /\ r \notin sel) THEN sel \cup {r}
    ELSE IF effect = "toggle" THEN sel \ {r}
    ELSE sel

\* __set_selected_ranges(selections, is_continue=..., un_select=...) on the
\* selection st: what it leaves, and the exception it raises.
set_selected_ranges(st, selections, is_continue, un_select, effect) ==
    LET selected_rows == st.selected
        cleared == IF is_continue THEN st.selected ELSE {}
    IN  IF selections = <<>>
        THEN [selected |-> cleared, current_cell |-> st.current_cell,
              raised |-> "IndexError"]
        ELSE [selected |->
                  RangesSelected(
                      CellSelected(cleared, selections[Len(selections)], effect),
                      selections, 1, selected_rows, un_select),
              current_cell |-> selections[Len(selections)],
              raised |-> ""]

\* set_selections(selections, key_detect) with the keys `modifiers` held
set_selections(st, selections, key_detect, modifiers, effect) ==
    set_selected_ranges(st, selections, Mode(modifiers, key_detect)[1],
                        Mode(modifiers, key_detect)[2], effect)

\* k more rows stay within the bound of the model.
RoomForRows(k) ==
    Size(point_table) + Size(expr_table) + Size(link_table) - 1 + k <= MaxRows

TableFrame == UNCHANGED <<mechanism_data, trace_vars, path_vars, result_vars>>

\* A row is added to the point table and edit_point fills it.
EditPoint ==
    /\ RoomForRows(1)
    /\ point_table' = RowSet(RowCountSet(point_table, Size(point_table) + 1, NoItems),
                             Size(point_table), PointRow(Size(point_table), ""))
    /\ Done("edit_point", "")
    /\ UNCHANGED <<link_table, expr_table, exprs, selected, current_cell>>
    /\ TableFrame

\* edit_link on a row of the link table, or on a row just added.
EditLink ==
    /\ \E r \in 0..Size(link_table), link \in LinkInputs :
         /\ r = Size(link_table) => RoomForRows(1)
         /\ link_table' = edit_link(RowCountSet(link_table,
                                                IF r = Size(link_table) THEN r + 1 ELSE Size(link_table),
                                                NoItems),
                                    r, link.name, link.color, link.points)
    /\ Done("edit_link", "")
    /\ UNCHANGED <<expr_table, exprs, point_table, selected, current_cell>>
    /\ TableFrame

\* set_expr(exprs, data_dict, unsolved)
SetExpr ==
    /\ \E es \in ExprInputs, unsolved \in UnsolvedInputs :
         /\ RoomForRows(Len(es) + Len(unsolved) - Size(expr_table))
         /\ expr_table' =
              ExprRows(IF es # exprs
                       THEN RowCountSet(BaseCleared(expr_table),
                                        Len(es) + Len(unsolved),
                                        [function |-> "", target |-> ""])
                       ELSE expr_table,
                       es, unsolved)
         /\ exprs' = es
    /\ Done("set_expr", "")
    /\ UNCHANGED <<link_table, point_table, selected, current_cell>>
    /\ TableFrame

\* set_selections(selections, key_detect) of the point table
SetSelections ==
    /\ \E selections \in SelectionInputs, key_detect \in BOOLEAN,
          modifiers \in Modifiers, effect \in CellEffects :
         LET after == set_selections(TableState, selections, key_detect,
                                     modifiers, effect)
         IN  /\ selected' = after.selected
             /\ current_cell' = after.current_cell
             /\ Done("set_selections", after.raised)
    /\ UNCHANGED <<link_table, expr_table, exprs, point_table>>
    /\ TableFrame

\* clearSelection() of the point table
ClearSelection ==
    /\ selected' = {}
    /\ Done("clearSelection", "")
    /\ UNCHANGED <<link_table, expr_table, exprs, point_table, current_cell>>
    /\ TableFrame

\* clear() of the point table: no row is left to be selected or current.
PointTableClear ==
    /\ point_table' = BaseCleared(point_table)
    /\ selected' = {}
    /\ current_cell' = -1
    /\ Done("PointTableWidget.clear", "")
    /\ UNCHANGED <<link_table, expr_table, exprs>>
    /\ TableFrame

\* clear() of the link table
LinkTableClear ==
    /\ link_table' = LinkCleared(link_table)
    /\ Done("LinkTableWidget.clear", "")
    /\ UNCHANGED <<expr_table, exprs, point_table, selected, current_cell>>
    /\ TableFrame

\* clear() of the expression table
ExprTableClear ==
    /\ expr_table' = BaseCleared(expr_table)
    /\ Done("ExprTableWidget.clear", "")
    /\ UNCHANGED <<link_table, exprs, point_table, selected, current_cell>>
    /\ TableFrame

TableNext ==
    \/ EditPoint
    \/ EditLink
    \/ SetExpr
    \/ SetSelections
    \/ ClearSelection
    \/ PointTableClear
    \/ LinkTableClear
    \/ ExprTableClear

TableSpec == PathInit /\ [][TableNext]_vars

----------------------------------------------------------------------------
(* Vocabulary of the properties. *)

\* __get_path is running.
Tracing == pc \in {"for", "while"}

\* Both sweeps are over: the next step is `return path`.
AtReturn == pc = "for" /\ di > Len(Intervals)

CallIds == 1..Len(calls)

\* The calls made while driver d was active in sweep k.
Block(k, d) == { j \in CallIds : calls[j].di = k /\ calls[j].dp = d }

\* The accepted (non-sentinel) ones among them.
Accepted(k, d) == { j \in Block(k, d) : calls[j].ok }

\* No call made while driver d was active has failed.
NeverFails(d) == \A j \in CallIds : calls[j].dp = d => calls[j].ok

\* The driver pointer has advanced past driver d in sweep k.
Finished(k, d) ==
    /\ Tracing
    /\ d \in Drivers
    /\ \/ di > k
       \/ di = k /\ pc = "while" /\ dp > d

\* The angles after the iteration of call j, while its sweep is still running.
SweepContinues(j) ==
    IF j < Len(calls) THEN calls[j + 1].di = calls[j].di
    ELSE pc = "while" /\ di = calls[j].di

AnglesAfter(j) == IF j < Len(calls) THEN calls[j + 1].angles ELSE angles

----------------------------------------------------------------------------
(* C1: the Path has exactly vpoint_count sequences and, after every loop    *)
(* iteration and at return, every joint's sequence is as long as the number *)
(* of expr_solving calls made so far, successful or failed, over both       *)
(* sweeps.                                                                  *)
C1_PathLengths ==
    /\ Tracing =>
         /\ DOMAIN path = Joints
         /\ \A i \in Joints : Len(path[i]) = Len(calls)
    /\ (pc = "idle" /\ traced) =>
         /\ DOMAIN returned = Joints
         /\ \A i \in Joints : Len(returned[i]) = Len(calls)

C1_Witness ==
    /\ pc = "idle" /\ traced
    /\ vpoint_count = 2
    /\ \E j \in CallIds : ~calls[j].ok
    /\ \E j \in CallIds : calls[j].ok /\ calls[j].di = 2
    /\ \E j \in CallIds : calls[j].ok /\ calls[j].di = 1

(* C2: the entry appended for a failed call is the sentinel pair for every  *)
(* joint, and an index of the Path holds the sentinel for one joint exactly *)
(* when it holds it for all joints.                                         *)
C2_SentinelPropagation ==
    Tracing =>
        \A j \in CallIds :
            /\ ~calls[j].ok =>
                 \A i \in DOMAIN path : j \in DOMAIN path[i] /\ path[i][j] = NanPair
            /\ \A i1, i2 \in DOMAIN path :
                 /\ j \in DOMAIN path[i1]
                 /\ j \in DOMAIN path[i2]
                 /\ (path[i1][j] = NanPair) <=> (path[i2][j] = NanPair)

C2_Witness ==
    /\ Tracing
    /\ vpoint_count = 2
    /\ \E j \in CallIds :
         /\ j > 1
         /\ ~calls[j].ok
         /\ calls[j - 1].ok
         /\ path[0][j] = NanPair /\ path[1][j] = NanPair
         /\ path[0][j - 1] # NanPair /\ path[1][j - 1] # NanPair

C5_FirstCallFails ==
    (Tracing /\ calls # <<>> /\ ~calls[1].ok) =>
        /\ Len(calls) = 1 =>
             /\ di = 1 => pc = "while" /\ dp = 1
             /\ \A i \in Joints : path[i] = <<NanPair>>
        /\ \A j \in CallIds : j > 1 => ~(calls[j].di = 1 /\ calls[j].dp = 0)

C5_Witness ==
    /\ pc = "while" /\ di = 1 /\ dp = 1
    /\ i_count = 2
    /\ Len(calls) = 1
    /\ ~calls[1].ok
    /\ \A i \in Joints : path[i] = <<NanPair>>

(* C6: within one sweep, an iteration made while driver k is active changes *)
(* only angles[k], and at every solver call all drivers with an index above *)
(* the active one have angle 0.                                             *)
C6_DriverFrame ==
    Tracing =>
        \A j \in CallIds :
            /\ \A d \in DOMAIN calls[j].angles :
                 d > calls[j].dp => calls[j].angles[d] = 0
            /\ SweepContinues(j) =>
                 \A d \in DOMAIN calls[j].angles \ {calls[j].dp} :
                     AnglesAfter(j)[d] = calls[j].angles[d]

C6_Witness ==
    /\ Tracing
    /\ i_count = 2
    /\ \E j \in CallIds :
         /\ j > 1
         /\ calls[j].dp = 1
         /\ calls[j].angles[0] # 0
         /\ calls[j].angles[1] # 0
         /\ ~calls[j].ok

(* C7: once the driver pointer has advanced past driver d, the angle of d   *)
(* in every later solver call of that sweep is the angle of d at the last   *)
(* call that succeeded while d was active, never an angle at which no solve *)
(* was accepted.                                                            *)
C7_LastFeasibleAngle ==
    Tracing =>
        \A j \in CallIds : \A d \in Drivers :
            d < calls[j].dp =>
                \E g \in Accepted(calls[j].di, d) :
                    /\ g < j
                    /\ \A h \in Accepted(calls[j].di, d) : h <= g
                    /\ calls[g].angles[d] = calls[j].angles[d]

(* C8: in every joint's path all samples of the +3 sweep precede all        *)
(* samples of the -3 sweep, and within a sweep the samples of driver k      *)
(* precede those of driver k+1.                                             *)
C8_SweepOrder ==
    Tracing =>
        /\ \A i \in DOMAIN path : \A j \in CallIds :
             j \in DOMAIN path[i] /\ (path[i][j] = NanPair <=> ~calls[j].ok)
        /\ \A j \in CallIds :
             j > 1 =>
                 /\ ~(calls[j - 1].interval < 0 /\ calls[j].interval > 0)
                 /\ calls[j - 1].interval = calls[j].interval =>
                      calls[j - 1].dp <= calls[j].dp

C8_Witness ==
    /\ AtReturn
    /\ i_count = 2
    /\ \E j \in CallIds : calls[j].interval = 3 /\ calls[j].dp = 1 /\ calls[j].ok
    /\ \E j \in CallIds : calls[j].interval = -3 /\ calls[j].dp = 0 /\ calls[j].ok
    /\ \E j \in CallIds : calls[j].interval = -3 /\ calls[j].dp = 1 /\ calls[j].ok
    /\ \E j \in CallIds : ~calls[j].ok

(* C9: two invocations of __get_path for the same stored result, with a     *)
(* solver whose outcome is a function of its inputs, return the same Path.  *)
C9_Deterministic == (AtReturn /\ traced) => path = returned

C9_Witness ==
    /\ AtReturn /\ traced
    /\ i_count = 2
    /\ \E j \in CallIds : ~calls[j].ok
    /\ \E j \in CallIds : calls[j].ok
    /\ path = returned

(* C10: every drive angle passed to the solver, for every driver and at     *)
(* every call of both sweeps, lies in [0, 360).                             *)
C10_AngleRange ==
    Tracing =>
        \A j \in CallIds : \A d \in Drivers :
            calls[j].angles[d] >= 0 /\ calls[j].angles[d] < Revolution

(* C11: for every pattern of solver successes and failures and every      *)
(* number of drivers the trace terminates and returns a Path: a failure is  *)
(* absorbed as a sentinel sample and the trace goes on, and the driver      *)
(* pointer reaches the number of drivers in each sweep after finitely many  *)
(* solver calls.                                                            *)
C11_Terminates ==
    /\ Tracing ~> (pc = "idle" /\ traced)
    /\ [](Tracing => ENABLED TraceStep)
    /\ [](Tracing =>
            Len(calls) <= Len(Intervals) * i_count * (Revolution \div 3 + 1))

C11_Witness ==
    /\ pc = "idle" /\ traced
    /\ i_count = 2
    /\ DOMAIN returned = Joints
    /\ \E j \in CallIds : ~calls[j].ok /\ calls[j].di = 1 /\ calls[j].dp = 0
    /\ \E j \in CallIds : ~calls[j].ok /\ calls[j].di = 2 /\ calls[j].dp = 1
    /\ \A i \in Joints : returned[i][Len(calls)] = NanPair

(* C12: when the expression contains no driver step the trace fails as a    *)
(* whole and returns no Path: a Path whose per-joint sequences are empty is *)
(* never returned.                                                          *)
C12_NoEmptyPath ==
    /\ AtReturn => i_count > 0
    /\ (pc = "idle" /\ traced) => \A i \in DOMAIN returned : returned[i] # <<>>

(* One sweep run alone, as a function: the calls of a sweep of direction   *)
(* `step` (sweep number k) over n drivers that starts with driver d, every  *)
(* driver from d on at angle 0, at the angles a and the angle progress ap,  *)
(* and the angle progress it leaves.  The block of a driver is given in     *)
(* closed form: its c-th call is made at angle (c - 1) * step modulo 360,   *)
(* and it ends with the first failing call or with the call that takes the  *)
(* progress beyond 360, whichever comes first.                              *)
AngleAt(c, step) == ((c - 1) * step) % Revolution

CallsToOvershoot(p, step) ==
    IF p >= Revolution THEN 1 ELSE (Revolution - p) \div Abs(step) + 1

RECURSIVE SweepAlone(_, _, _, _, _, _)
SweepAlone(a, ap, d, step, k, n) ==
    IF d >= n THEN [log |-> <<>>, ap |-> ap]
    ELSE LET most == CallsToOvershoot(ap[d], step)
             at(c) == [a EXCEPT ![d] = AngleAt(c, step)]
             failing == { c \in 1..most : SolveFails(at(c)) }
             len == IF failing = {} THEN most
                    ELSE CHOOSE c \in failing : \A c2 \in failing : c <= c2
             accepted == IF failing = {} THEN len ELSE len - 1
             block == [c \in 1..len |->
                         [interval |-> step, di |-> k, dp |-> d,
                          ok |-> c \notin failing, angles |-> at(c)]]
             settled == IF failing = {} THEN AngleAt(len + 1, step) - step
                        ELSE AngleAt(len, step) - step
             rest == SweepAlone([a EXCEPT ![d] = settled],
                                [ap EXCEPT ![d] = ap[d] + accepted * Abs(step)],
                                d + 1, step, k, n)
         IN  [log |-> block \o rest.log, ap |-> rest.ap]

Fresh(n) == [d \in 0..(n - 1) |-> 0]

InForward(c) == c.di = 1

InBackward(c) == c.di = 2

C14_ReadOnly ==
    [][(pc # "idle" \/ pc' # "idle") => mechanism_data' = mechanism_data]_vars

C14_Witness ==
    /\ pc = "idle" /\ traced
    /\ vpoint_count = 2
    /\ \E j \in CallIds : calls[j].ok
    /\ vpoints[0].c = Slot(0, calls[Len(calls)].angles)
    /\ vpoints[1].c = <<Slot(1, calls[Len(calls)].angles), Pin(1, calls[Len(calls)].angles)>>
    /\ \A i \in Joints : result.pos[i] = InitialPosition(i)

\* A sweep has just started: no call of it has been made yet.
SweepStart == pc = "while" /\ \A j \in CallIds : calls[j].di # di

Sentinels(i, js) == { j \in js : j \in DOMAIN path[i] /\ path[i][j] = NanPair }

(* C16: a single solver failure ends the active driver's sweep in that      *)
(* direction: after a failed call with driver d active, angles[d] is        *)
(* decreased by interval, the driver pointer is d + 1 and no further call   *)
(* is made with d active in that direction; so every joint's path holds at  *)
(* most one sentinel per driver and direction, at most 2 x drivers in all,  *)
(* and a sentinel is the last sample of its driver's block.                 *)
C16_FailureEndsBlock ==
    Tracing =>
        /\ \A j \in CallIds :
             ~calls[j].ok =>
                 /\ SweepContinues(j) =>
                      /\ AnglesAfter(j)[calls[j].dp]
                           = calls[j].angles[calls[j].dp] - calls[j].interval
                      /\ IF j < Len(calls) THEN calls[j + 1].dp = calls[j].dp + 1
                         ELSE dp = calls[j].dp + 1
                 /\ \A h \in CallIds :
                      h > j => ~(calls[h].di = calls[j].di /\ calls[h].dp = calls[j].dp)
        /\ \A i \in DOMAIN path :
             /\ Cardinality(Sentinels(i, CallIds)) <= Len(Intervals) * i_count
             /\ \A k \in 1..Len(Intervals) : \A d \in Drivers :
                  Cardinality(Sentinels(i, Block(k, d))) <= 1

C16_Witness ==
    /\ AtReturn
    /\ i_count = 2
    /\ vpoint_count = 2
    /\ Cardinality(Sentinels(1, CallIds)) = 4
    /\ \E j \in CallIds : j > 1 /\ ~calls[j].ok /\ calls[j - 1].ok
                          /\ calls[j - 1].dp = calls[j].dp

\* The last call made so far, and the last one that succeeded.
LastCall == calls[Len(calls)]

NoSuccess == \A j \in CallIds : ~calls[j].ok

LastSuccess ==
    CHOOSE j \in CallIds : calls[j].ok /\ \A h \in (j + 1)..Len(calls) : ~calls[h].ok

(* C17: on a successful solve the entry appended for a P or RP joint is the *)
(* pin coordinate (the second element of the solved slot/pin pair) and the  *)
(* joint's current position becomes that (slot, pin) pair; for any other    *)
(* joint the entry is the solved coordinate and the current position        *)
(* becomes that coordinate.                                                 *)
C17_SuccessEntry ==
    (Tracing /\ calls # <<>> /\ LastCall.ok) =>
        \A i \in DOMAIN path :
            /\ path[i] # <<>>
            /\ IF vpoints[i].type \in {"P", "RP"}
                 THEN /\ path[i][Len(path[i])] = Pin(i, LastCall.angles)
                      /\ vpoints[i].c
                           = <<Slot(i, LastCall.angles), Pin(i, LastCall.angles)>>
                 ELSE /\ path[i][Len(path[i])] = Slot(i, LastCall.angles)
                      /\ vpoints[i].c = Slot(i, LastCall.angles)

C17_Witness ==
    /\ pc = "while"
    /\ vpoint_count = 2
    /\ Len(calls) > 1
    /\ LastCall.ok
    /\ vpoints[1].type = "RP"
    /\ LastCall.angles[0] # 0
    /\ path[1][Len(calls)] = Pin(1, LastCall.angles)
    /\ path[0][Len(calls)] = Slot(0, LastCall.angles)
    /\ vpoints[1].c[1] = Slot(1, LastCall.angles)

(* C18: a solver failure leaves every joint's current position unchanged:   *)
(* the positions that seed the next solver call are those of the most       *)
(* recent successful solve, or the initial positions if none succeeded, and *)
(* the sentinel is never written into a current position.                   *)
C18_PositionsKept ==
    Tracing =>
        \A i \in DOMAIN vpoints :
            IF IsSlider(vpoints[i].type)
            THEN /\ vpoints[i].c[1] # NanPair /\ vpoints[i].c[2] # NanPair
                 /\ vpoints[i].c =
                      IF NoSuccess THEN <<result.pos[i], result.pos[i]>>
                      ELSE <<Slot(i, calls[LastSuccess].angles),
                             Pin(i, calls[LastSuccess].angles)>>
            ELSE /\ vpoints[i].c # NanPair
                 /\ vpoints[i].c =
                      IF NoSuccess THEN result.pos[i]
                      ELSE Slot(i, calls[LastSuccess].angles)

C18_Witness ==
    /\ pc = "while"
    /\ vpoint_count = 2
    /\ Len(calls) > 2
    /\ ~LastCall.ok
    /\ calls[Len(calls) - 1].ok
    /\ LastSuccess = Len(calls) - 1
    /\ vpoints[1].c = <<Slot(1, calls[LastSuccess].angles),
                        Pin(1, calls[LastSuccess].angles)>>
    /\ path[1][Len(calls)] = NanPair

(* C19: the cumulative angle progress is carried from the +3 sweep into    *)
(* the -3 sweep: if a driver completed its +3 sweep without a failure, then *)
(* in the -3 sweep exactly one solver call is made while it is active, at   *)
(* that driver's angle 0, after which the driver pointer advances.          *)
C19_ProgressCarried ==
    (Tracing /\ di >= 2) =>
        \A d \in Drivers :
            (\A j \in Block(1, d) : calls[j].ok) =>
                /\ (pc = "while" /\ di = 2 /\ dp = d) => Block(2, d) = {}
                /\ Finished(2, d) =>
                     /\ Cardinality(Block(2, d)) = 1
                     /\ \A j \in Block(2, d) : calls[j].angles[d] = 0

C19_Witness ==
    /\ pc = "while" /\ di = 2 /\ dp = 2
    /\ i_count = 2
    /\ \A j \in Block(1, 1) : calls[j].ok
    /\ \E j \in Block(1, 0) : ~calls[j].ok
    /\ Cardinality(Block(2, 1)) = 1
    /\ Cardinality(Block(2, 0)) > 1
    /\ angles_params[1] = Revolution + 6

(* C20: for n drivers and any solver behaviour, the number of solver calls  *)
(* made while a given driver is active, summed over both sweeps, is at      *)
(* least 2 and at most 122; so every joint's final path length lies between *)
(* 2n and 122n, and is 0 exactly when n = 0.                                *)
C20_CallBounds ==
    AtReturn =>
        /\ \A d \in Drivers :
             /\ Cardinality(Block(1, d)) + Cardinality(Block(2, d)) >= 2
             /\ Cardinality(Block(1, d)) + Cardinality(Block(2, d)) <= 122
        /\ \A i \in DOMAIN path :
             /\ Len(path[i]) >= 2 * i_count
             /\ Len(path[i]) <= 122 * i_count
             /\ Len(path[i]) = 0 <=> i_count = 0

C20_Witness ==
    /\ AtReturn
    /\ i_count = 2
    /\ Cardinality(Block(1, 0)) + Cardinality(Block(2, 0)) = 2
    /\ Cardinality(Block(1, 1)) + Cardinality(Block(2, 1)) = 122
    /\ \A i \in DOMAIN path : Len(path[i]) = 124

(* C21: within a sweep direction the driver pointer never decreases and,    *)
(* when it changes, increases by exactly 1; it goes back to 0 only where a  *)
(* direction starts, once between the two directions, when it has reached   *)
(* the number of drivers; so in each direction every driver is active for   *)
(* one contiguous, non-empty block of solver calls, in driver-list order.   *)
C21_PointerMonotone ==
    /\ [][(Tracing /\ Tracing') =>
            /\ dp' > dp => (pc = "while" /\ pc' = "while" /\ dp' = dp + 1)
            /\ dp' < dp => (pc = "for" /\ pc' = "while" /\ dp' = 0)
            /\ (pc = "for" /\ pc' = "while" /\ di = 2) => (dp = i_count /\ dp' = 0)
            /\ di' >= di]_vars
    /\ [](Tracing =>
            LET n == i_count
            IN  /\ calls # <<>> => (calls[1].di = 1 /\ calls[1].dp = 0)
                /\ \A j \in CallIds :
                     j > 1 =>
                         IF calls[j].di = calls[j - 1].di
                         THEN calls[j].dp \in {calls[j - 1].dp, calls[j - 1].dp + 1}
                         ELSE /\ calls[j].di = calls[j - 1].di + 1
                              /\ calls[j - 1].dp = n - 1
                              /\ calls[j].dp = 0
                /\ \A k \in 1..Len(Intervals) : \A d \in 0..(n - 1) :
                     Finished(k, d) => Block(k, d) # {})

C21_Witness ==
    /\ AtReturn
    /\ i_count = 2
    /\ Cardinality(Block(1, 0)) > 1
    /\ Cardinality(Block(1, 1)) > 1
    /\ Cardinality(Block(2, 0)) > 1
    /\ Cardinality(Block(2, 1)) > 1
    /\ \E j \in CallIds : j > 1 /\ calls[j].di = 2 /\ calls[j - 1].di = 1
                          /\ calls[j].dp = 0 /\ calls[j - 1].dp = 1

(* C22: after any sequence of add_point, delete, move up, move down, clear  *)
(* path, close path, set_point and target switches, the point list widget   *)
(* has exactly as many items as the current target path has points, in the  *)
(* same order (item i is the text of point i), and add_point appends the    *)
(* point to both the list widget and the current target path.               *)
C22_ListMatchesPath ==
    /\ path_list = ItemsOf(CurrentPath(PathState))
    /\ \A p \in PointInputs :
         LET st == add_point(PathState, p[1], p[2])
         IN  /\ CurrentPath(st)
                  = Added(CurrentPath(PathState), <<Round4(p[1]), Round4(p[2])>>)
             /\ st.path_list = Added(path_list, ItemText(Round4(p[1]), Round4(p[2])))

\* The list l with the entries at i and j exchanged.
Exchanged(l, i, j) ==
    [k \in DOMAIN l |-> IF k = i THEN l[j] ELSE IF k = j THEN l[i] ELSE l[k]]

\* The lists hold the same points the same number of times.
SameBag(l, m) ==
    /\ Size(l) = Size(m)
    /\ \A i \in DOMAIN l :
         Cardinality({ j \in DOMAIN l : l[j] = l[i] })
             = Cardinality({ j \in DOMAIN m : m[j] = l[i] })

\* The handler left the path state as it was.
Untouched(after) ==
    /\ after.self_path = self_path
    /\ after.path_list = path_list
    /\ after.path_row = path_row

(* C23: move-up on row r > 0 exchanges points r-1 and r of the current      *)
(* target path and selects row r-1; move-down on row r < last exchanges     *)
(* points r and r+1 and selects row r+1; at the first (resp. last) row or   *)
(* with fewer than two points the operation changes nothing; both preserve  *)
(* the multiset of points and the path length, and move-up followed by      *)
(* move-down restores the original path and selection.                      *)
C23_MoveExchanges ==
    LET cur == CurrentPath(PathState)
        r == path_row
        last == Size(cur) - 1
        up == move_up_point(PathState)
        down == move_down_point(PathState)
    IN  /\ IF r > 0 /\ Size(cur) >= 2
             THEN /\ up.path_row = r - 1
                  /\ CurrentPath(up) = Exchanged(cur, r - 1, r)
                  /\ Untouched(move_down_point(up))
             ELSE Untouched(up)
        /\ IF r < last /\ Size(cur) >= 2
             THEN /\ down.path_row = r + 1
                  /\ r \in DOMAIN cur
                  /\ CurrentPath(down) = Exchanged(cur, r, r + 1)
             ELSE Untouched(down)
        /\ SameBag(cur, CurrentPath(up))
        /\ SameBag(cur, CurrentPath(down))

\* The text has an odd number of tokens or a token that is not a number.
Malformed(raw) == Len(raw) % 2 = 1 \/ \E i \in 1..Len(raw) : raw[i][1] # "num"

\* The list l followed by n entries, the k-th of them f[k].
Extended(l, n, f) ==
    [i \in 0..(Size(l) + n - 1) |-> IF i < Size(l) THEN l[i] ELSE f[i - Size(l) + 1]]

(* C24: __read_path_from_csv is all-or-nothing: if the token list has odd   *)
(* length or any token is not a number, a warning is shown and neither the  *)
(* current target path nor the list widget changes; otherwise every         *)
(* consecutive pair of tokens is appended, in order, as one point (rounded  *)
(* to four decimals) to the list widget and to the current target path,     *)
(* whenever a target is current.                                            *)
C24_AllOrNothing ==
    \A raw \in RawInputs :
        LET after == read_path_from_csv(PathState, raw)
            n == Len(raw) \div 2
            point == [k \in 1..n |-> <<Round4(raw[2 * k - 1][2]), Round4(raw[2 * k][2])>>]
            text == [k \in 1..n |-> <<Round4(raw[2 * k - 1][2]) \div 10,
                                      Round4(raw[2 * k][2]) \div 10>>]
        IN  IF Malformed(raw)
            THEN Untouched(after) /\ after.raised = "File error"
            ELSE /\ after.raised = ""
                 /\ after.path_list = Extended(path_list, n, text)
                 /\ ~NoTarget =>
                      /\ CurrentPath(after) = Extended(CurrentPath(PathState), n, point)
                      /\ \A name \in DOMAIN self_path :
                           name # NameOf(target_points[target_row]) =>
                               after.self_path[name] = self_path[name]

C24_Witness ==
    /\ op = "__read_path_from_csv"
    /\ warning = ""
    /\ ~NoTarget
    /\ Size(CurrentPath(PathState)) = 3
    /\ CurrentPath(PathState)[1] = <<0, 0>>
    /\ CurrentPath(PathState)[2] = <<10 * Scale + 10, 0>>
    /\ path_list = ItemsOf(CurrentPath(PathState))
    /\ path_row = 2

----------------------------------------------------------------------------
\* Two target paths differ in length.
Unequal(paths) ==
    \E n \in DOMAIN paths, m \in DOMAIN paths : Size(paths[n]) # Size(paths[m])

\* C25: when two target paths differ in length, __synthesis shows the
\* 'Target Error' warning and leaves mechanism_data, the result list and the
\* saved flag as they were; results are only added when all target paths
\* have the same length.
C25_TargetError ==
    [][(op' = "__synthesis" /\ Unequal(self_path)) =>
          /\ warning' = "Target Error"
          /\ UNCHANGED <<mechanism_data, result_list, no_save>>]_vars

C25_Witness ==
    /\ op = "__synthesis"
    /\ warning = "Target Error"
    /\ Unequal(self_path)
    /\ Size(mechanism_data) = 2
    /\ no_save = FALSE

----------------------------------------------------------------------------
\* C26: the result list has as many items as mechanism_data has results,
\* item i is the item made of mechanism_data[i], and the current row is no
\* row or the row of a result.
C26_ListMatchesData ==
    /\ Size(result_list) = Size(mechanism_data)
    /\ \A i \in DOMAIN mechanism_data :
         /\ result_list[i].text = mechanism_data[i].Algorithm
         /\ result_list[i].tip = <<mechanism_data[i].Algorithm, mechanism_data[i].interrupted>>
         /\ result_list[i].icon = IconOf(mechanism_data[i].interrupted)
    /\ result_row \in -1..(Size(mechanism_data) - 1)

C26_Witness ==
    /\ op = "__delete_result"
    /\ no_save
    /\ Size(mechanism_data) = 2
    /\ mechanism_data[0].Algorithm = "RGA"
    /\ mechanism_data[1].Algorithm = "DE"
    /\ result_row = 1

----------------------------------------------------------------------------
\* The rows selections names.
Rows(selections) == { selections[k] : k \in 1..Len(selections) }

\* C27: set_selections leaves exactly the rows of selections selected when
\* no modifier is held, the rows selected before united with them when
\* Shift is held, and the symmetric difference of the two when Control is
\* held and key_detect is set; the current cell is the last row of
\* selections.
C27_SelectionModes ==
    \A selections \in SelectionInputs, key_detect \in BOOLEAN, effect \in CellEffects :
        LET S == selected
            R == Rows(selections)
            after(modifiers) ==
                set_selections(TableState, selections, key_detect, modifiers, effect)
        IN  /\ after("NoModifier").selected = R
            /\ after("ShiftModifier").selected = S \cup R
            /\ key_detect => after("ControlModifier").selected = (S \ R) \cup (R \ S)
            /\ \A modifiers \in Modifiers :
                 selections # <<>> =>
                     after(modifiers).current_cell = selections[Len(selections)]

C27_Witness ==
    /\ op = "set_selections"
    /\ Size(point_table) = 3
    /\ selected = {0, 2}
    /\ current_cell = 1

----------------------------------------------------------------------------
\* C28: after construction and after clear() the link table has exactly one
\* row, the link 'ground' with no points; after clear() the point table and
\* the expression table have no rows.
C28_GroundKept ==
    /\ op \in {"__init__", "LinkTableWidget.clear"} =>
         /\ Size(link_table) = 1
         /\ link_table[0].name = "ground"
         /\ link_table[0].points = ""
    /\ op = "PointTableWidget.clear" => Size(point_table) = 0
    /\ op = "ExprTableWidget.clear" => Size(expr_table) = 0

C28_Witness ==
    /\ op = "LinkTableWidget.clear"
    /\ Size(link_table) = 1
    /\ Size(point_table) = 1
    /\ Size(expr_table) = 2

====
